---- MODULE Spec2Model ----
(***************************************************************************)
(* Model of the video analyzer backend (src/main.py): the POST /analyze   *)
(* handler with its temporary file, the ffprobe invoker and the report    *)
(* builder analyze_sync_and_metadata.                                      *)
(*                                                                         *)
(* Texts of the original are Chinese; the model uses ASCII renderings and  *)
(* names the original literal next to each.                                *)
(***************************************************************************)
EXTENDS Integers, Sequences, FiniteSets

(***************************************************************************)
(* Python float: IEEE-754 binary64, round to nearest even.  A non-negative *)
(* double is held exactly, as a fixed-point numeral of limbs in base       *)
(* 2^LimbBits, most significant first: one limb before the point and       *)
(* FracLimbs after it.  Every double the model meets (decimal texts with   *)
(* three fractional digits, from 0.001 up, and their differences) is a     *)
(* multiple of 2^-62, so nothing is lost.                                  *)
(***************************************************************************)
MantBits == 53
LimbBits == 16
FracLimbs == 4
Base == 2 ^ LimbBits
NumLimbs == 1 + FracLimbs
Width == NumLimbs * LimbBits

Zeros(n) == [i \in 1..n |-> 0]

\* the binary digits of a numeral, most significant first
BitsOf(x) ==
    [i \in 1..Width |->
        (x[((i - 1) \div LimbBits) + 1]
            \div (2 ^ (LimbBits - 1 - ((i - 1) % LimbBits)))) % 2]

\* the number a short bit string denotes
RECURSIVE BitsVal(_)
BitsVal(b) ==
    IF b = << >> THEN 0
    ELSE 2 * BitsVal(SubSeq(b, 1, Len(b) - 1)) + b[Len(b)]

\* the numeral with the given binary digits
LimbsOf(b) ==
    [k \in 1..NumLimbs |->
        BitsVal(SubSeq(b, LimbBits * (k - 1) + 1, LimbBits * k))]

\* x > y on numerals
LimbsGt(x, y) ==
    \E i \in 1..NumLimbs : x[i] > y[i] /\ \A j \in 1..(i - 1) : x[j] = y[j]

\* x - y for x >= y, by schoolbook subtraction with borrow, from the least
\* significant limb i down to 1; acc holds the limbs already produced
RECURSIVE SubFrom(_, _, _, _, _)
SubFrom(x, y, i, borrow, acc) ==
    IF i = 0 THEN acc
    ELSE LET d == x[i] - y[i] - borrow
         IN  IF d < 0 THEN SubFrom(x, y, i - 1, 1, <<d + Base>> \o acc)
             ELSE SubFrom(x, y, i - 1, 0, <<d>> \o acc)

LimbsSub(x, y) == SubFrom(x, y, NumLimbs, 0, << >>)

\* b + 1 on a bit string with a leading zero
BitsInc(b) ==
    LET n == Len(b)
    IN  [i \in 1..n |->
            IF \A j \in (i + 1)..n : b[j] = 1 THEN 1 - b[i] ELSE b[i]]

\* round the exact value x (plus a non-zero remainder below its last bit when
\* sticky) to MantBits significant bits, ties to even
RoundToDouble(x, sticky) ==
    IF \A i \in 1..NumLimbs : x[i] = 0 THEN x
    ELSE
    LET b    == BitsOf(x)
        lead == CHOOSE i \in 1..Width : b[i] = 1 /\ \A j \in 1..(i - 1) : b[j] = 0
        cut  == lead + MantBits - 1
    IN  IF cut >= Width THEN x
        ELSE
        LET kept == SubSeq(b, 1, cut)
            rest == sticky \/ \E j \in (cut + 2)..Width : b[j] = 1
            up   == b[cut + 1] = 1 /\ (rest \/ b[cut] = 1)
        IN  LimbsOf((IF up THEN BitsInc(kept) ELSE kept) \o Zeros(Width - cut))

\* long division of the numeral x by den, from limb i on with remainder rem so
\* far: <<quotient limbs, final remainder>>
RECURSIVE DivFrom(_, _, _, _, _)
DivFrom(x, den, i, rem, quot) ==
    IF i > Len(x) THEN <<quot, rem>>
    ELSE LET r == rem * Base + x[i]
         IN  DivFrom(x, den, i + 1, r % den, Append(quot, r \div den))

\* the double nearest to num/den (den is 1 or 1000, num < Base)
ToDouble(num, den) ==
    LET qr == DivFrom(<<num>> \o Zeros(FracLimbs), den, 1, 0, << >>)
    IN  RoundToDouble(qr[1], qr[2] # 0)

\* x - y without abs(): a negative difference is below every threshold, held
\* here as zero
FloatDiffNoAbs(x, y) ==
    IF LimbsGt(y, x) THEN Zeros(NumLimbs)
    ELSE RoundToDouble(LimbsSub(x, y), FALSE)

\* abs(x - y) of two non-negative doubles: the exact difference, rounded
FloatAbsDiff(x, y) ==
    IF LimbsGt(y, x) THEN RoundToDouble(LimbsSub(y, x), FALSE)
    ELSE RoundToDouble(LimbsSub(x, y), FALSE)

\* x * 1000 by schoolbook multiplication from the least significant limb i
\* down to 1; the result has one limb more, the carry out of the top
RECURSIVE MulFrom(_, _, _, _)
MulFrom(x, i, carry, acc) ==
    IF i = 0 THEN <<carry>> \o acc
    ELSE LET p == x[i] * 1000 + carry
         IN  MulFrom(x, i - 1, p \div Base, <<p % Base>> \o acc)

\* f"{x:.3f}" of a double below 64 s: the number n of thousandths printed,
\* the exact value rounded half to even
FormatMillis(x) ==
    LET p    == MulFrom(x, NumLimbs, 0, << >>)
        whole == p[2]
        frac == SubSeq(p, 3, NumLimbs + 1)
        half == <<Base \div 2>> \o Zeros(FracLimbs - 1)
        gt   == \E i \in 1..FracLimbs :
                    frac[i] > half[i] /\ \A j \in 1..(i - 1) : frac[j] = half[j]
    IN  IF gt \/ (frac = half /\ whole % 2 = 1) THEN whole + 1 ELSE whole

(***************************************************************************)
(* JSON values of the probe output.  A field that carries a number is one  *)
(* of three kinds of text: digits only ("int", the number v), a decimal    *)
(* with three fractional digits ("dec", the number v/1000), or a text that *)
(* is no number ("str", ffprobe prints N/A).  Fields that are only copied   *)
(* are opaque strings.  A mapping is a record; an absent key is a field    *)
(* the record does not have.                                               *)
(***************************************************************************)
IntText(n) == [t |-> "int", v |-> n]
DecText(n) == [t |-> "dec", v |-> n]
NAText == [t |-> "str", v |-> 0]

\* dict.get(key, default)
Get(d, key, default) == IF key \in DOMAIN d THEN d[key] ELSE default

\* the literal 0 used as default of .get(): float(0) and int(0) are those of "0"
PyZero == IntText(0)
\* None, serialised as null
None == "null"
\* '未知'
UNKNOWN == "unknown"

\* float(x): [ok, val]; not ok is ValueError
PyFloat(x) ==
    CASE x.t = "int" -> [ok |-> TRUE, val |-> ToDouble(x.v, 1)]
      [] x.t = "dec" -> [ok |-> TRUE, val |-> ToDouble(x.v, 1000)]
      [] OTHER       -> [ok |-> FALSE, val |-> Zeros(NumLimbs)]

\* int(x): [ok, val]; a text with a decimal point is no integer literal
PyInt(x) ==
    CASE x.t = "int" -> [ok |-> TRUE, val |-> x.v]
      [] OTHER       -> [ok |-> FALSE, val |-> 0]

\* str(e) of the ValueError raised by float() and by int()
FLOAT_ERROR == "could not convert string to float"
INT_ERROR == "invalid literal for int() with base 10"

(***************************************************************************)
(* analyze_sync_and_metadata                                               *)
(***************************************************************************)
\* "分析失败"
SYNC_FAILED == "analysis failed"
\* "OK: 音视频同步存在" / "文件包含音视频流。"
SYNC_OK == "OK: audio/video sync present"
MSG_OK == "file contains audio and video streams"
\* "警告: 缺少视频流" / "文件不包含视频轨道。"
SYNC_NO_VIDEO == "warning: missing video stream"
MSG_NO_VIDEO == "file has no video track"
\* "警告: 缺少音频流" / "文件不包含音频轨道。"
SYNC_NO_AUDIO == "warning: missing audio stream"
MSG_NO_AUDIO == "file has no audio track"
\* "警告: 音视频起始时间不同步" / "视频起始时间差: {..:.3f} 秒。建议检查音轨是否延迟。"
SYNC_MISMATCH == "warning: audio/video start time mismatch"
MSG_MISMATCH == "video start time difference (thousandths of a second)"
\* "警告: 缺少关键流"
CODEC_MISSING == "warning: missing key stream"
CODEC_OK == "OK"

\* the double 0.1 of the comparison
Threshold == ToDouble(100, 1000)

\* line 88 taking the last stream of the type instead of the first
LastOfType(streams, type) ==
    LET hits == {i \in 1..Len(streams) :
                    "codec_type" \in DOMAIN streams[i]
                    /\ streams[i].codec_type = type}
    IN  IF hits = {} THEN 0
        ELSE CHOOSE i \in hits : \A j \in hits : j <= i

\* next((s for s in streams if s.get('codec_type') == type), None), as the
\* position of that stream, 0 for None
FirstOfType(streams, type) ==
    LET hits == {i \in 1..Len(streams) :
                    "codec_type" \in DOMAIN streams[i]
                    /\ streams[i].codec_type = type}
    IN  IF hits = {} THEN 0
        ELSE CHOOSE i \in hits : \A j \in hits : i <= j

\* line 107 with > replaced by >=
SkewAtLeastThreshold(skew) == ~LimbsGt(Threshold, skew)

\* line 107: abs(v_start - a_start) > 0.1
SkewExceeds(skew) == LimbsGt(skew, Threshold)

\* lines 140-143 with 'or' replaced by 'and'
CodecExceptionBothMissing(vi, ai) ==
    IF vi = 0 /\ ai = 0 THEN CODEC_MISSING ELSE CODEC_OK

\* lines 140-143
CodecException(vi, ai) ==
    IF vi = 0 \/ ai = 0 THEN CODEC_MISSING ELSE CODEC_OK

Returned(value) == [kind |-> "return", value |-> value, exc |-> ""]
Raised(exc) == [kind |-> "raise", value |-> << >>, exc |-> exc]

\* lines 91-109: [ok, status, message]; not ok is the ValueError of float()
SyncCheck(streams) ==
    LET vi == FirstOfType(streams, "video")
        ai == FirstOfType(streams, "audio")
    IN  IF vi = 0 THEN
            [ok |-> TRUE, status |-> SYNC_NO_VIDEO, message |-> <<MSG_NO_VIDEO>>]
        ELSE IF ai = 0 THEN
            [ok |-> TRUE, status |-> SYNC_NO_AUDIO, message |-> <<MSG_NO_AUDIO>>]
        ELSE
            LET v_start == PyFloat(Get(streams[vi], "start_time", PyZero))
                a_start == PyFloat(Get(streams[ai], "start_time", PyZero))
            IN  IF ~v_start.ok \/ ~a_start.ok THEN
                    [ok |-> FALSE, status |-> "", message |-> << >>]
                ELSE
                LET skew == FloatAbsDiff(v_start.val, a_start.val)
                IN  IF SkewExceeds(skew) THEN
                        [ok |-> TRUE, status |-> SYNC_MISMATCH,
                         message |-> <<MSG_MISMATCH, FormatMillis(skew)>>]
                    ELSE
                        [ok |-> TRUE, status |-> SYNC_OK, message |-> <<MSG_OK>>]

\* lines 124-130
VideoSection(s) ==
    [codec            |-> Get(s, "codec_name", UNKNOWN),
     width            |-> Get(s, "width", None),
     height           |-> Get(s, "height", None),
     avg_frame_rate   |-> Get(s, "avg_frame_rate", UNKNOWN),
     codec_tag_string |-> Get(s, "codec_tag_string", UNKNOWN)]

\* lines 132-137
AudioSection(s) ==
    [codec          |-> Get(s, "codec_name", UNKNOWN),
     sample_rate    |-> Get(s, "sample_rate", None),
     channels       |-> Get(s, "channels", None),
     channel_layout |-> Get(s, "channel_layout", UNKNOWN)]

\* f @@ g without the TLC module: g's fields added to f
Extend(f, g) ==
    [k \in DOMAIN f \cup DOMAIN g |-> IF k \in DOMAIN f THEN f[k] ELSE g[k]]

analyze_sync_and_metadata(ffprobe_data) ==
    IF "error" \in DOMAIN ffprobe_data THEN
        Returned([sync_status |-> SYNC_FAILED,
                  message     |-> ffprobe_data.error,
                  details     |-> Get(ffprobe_data, "details", "")])
    ELSE
    LET streams     == Get(ffprobe_data, "streams", << >>)
        format_info == Get(ffprobe_data, "format", << >>)
        vi          == FirstOfType(streams, "video")
        ai          == FirstOfType(streams, "audio")
        sync        == SyncCheck(streams)
        duration    == PyFloat(Get(format_info, "duration", PyZero))
        size        == PyInt(Get(format_info, "size", PyZero))
        bit_rate    == PyInt(Get(format_info, "bit_rate", PyZero))
    IN  IF ~sync.ok \/ ~duration.ok THEN Raised(FLOAT_ERROR)
        ELSE IF ~size.ok \/ ~bit_rate.ok THEN Raised(INT_ERROR)
        ELSE
        LET report == [sync_status  |-> sync.status,
                       sync_message |-> sync.message,
                       filename     |-> Get(format_info, "filename", UNKNOWN),
                       duration     |-> duration.val,
                       size_bytes   |-> size.val,
                       format_name  |-> Get(format_info, "format_name", UNKNOWN),
                       bit_rate     |-> bit_rate.val]
            video  == IF vi # 0 THEN [video |-> VideoSection(streams[vi])]
                      ELSE << >>
            audio  == IF ai # 0 THEN [audio |-> AudioSection(streams[ai])]
                      ELSE << >>
            codec  == [codec_exception |-> CodecException(vi, ai)]
        IN  Returned(Extend(Extend(Extend(report, video), audio), codec))

(***************************************************************************)
(* Upload validation and the temporary path                                *)
(***************************************************************************)
\* file names are sequences of one-character strings
UpperCase == <<"A", "B", "C", "D", "E", "F", "G", "H", "I", "J", "K", "L", "M",
               "N", "O", "P", "Q", "R", "S", "T", "U", "V", "W", "X", "Y", "Z">>
LowerCase == <<"a", "b", "c", "d", "e", "f", "g", "h", "i", "j", "k", "l", "m",
               "n", "o", "p", "q", "r", "s", "t", "u", "v", "w", "x", "y", "z">>

\* str.lower()
Lower(name) ==
    [i \in 1..Len(name) |->
        IF \E k \in 1..26 : UpperCase[k] = name[i]
        THEN LowerCase[CHOOSE k \in 1..26 : UpperCase[k] = name[i]]
        ELSE name[i]]

ALLOWED_EXTENSIONS ==
    {<<"m", "p", "4">>, <<"m", "o", "v">>, <<"a", "v", "i">>, <<"m", "k", "v">>}

\* filename.rsplit('.', 1)[1], for a name that has a dot
AfterLastDot(name) ==
    LET dots == {i \in 1..Len(name) : name[i] = "."}
        last == CHOOSE i \in dots : \A j \in dots : j <= i
    IN  SubSeq(name, last + 1, Len(name))

\* line 27-28 without the extension test
allowed_file_any_extension(filename) ==
    \E i \in 1..Len(filename) : filename[i] = "."

allowed_file(filename) ==
    /\ \E i \in 1..Len(filename) : filename[i] = "."
    /\ Lower(AfterLastDot(filename)) \in ALLOWED_EXTENSIONS

\* werkzeug's secure_filename on names of letters, digits and dots: leading
\* and trailing dots are stripped
RECURSIVE secure_filename(_)
secure_filename(name) ==
    IF name = << >> THEN name
    ELSE IF name[1] = "." THEN secure_filename(Tail(name))
    ELSE IF name[Len(name)] = "." THEN secure_filename(SubSeq(name, 1, Len(name) - 1))
    ELSE name

\* uuid.uuid4() of the call made for request r: a value no other call returns
Uuid4(r) == r

\* line 189 without the uuid prefix
TempPathNoUuid(r, filename) == <<"tmp", 0, filename>>

\* f"{uuid.uuid4()}_{filename}" joined to tempfile.gettempdir()
TempPath(r, filename) == <<"tmp", Uuid4(r), filename>>

(***************************************************************************)
(* Inputs                                                                  *)
(***************************************************************************)
NumRequests == 2
Requests == 1..NumRequests

\* the multipart form of a request: no 'video' field, or one with a file name
NoVideoField == [has_video |-> FALSE, filename |-> << >>]
Filenames ==
    {<< >>,
     <<"a", ".", "m", "p", "4">>,
     <<".", "M", "O", "V">>,
     <<"a", ".", "t", "x", "t">>,
     <<"m", "p", "4">>}
Forms == {NoVideoField} \cup {[has_video |-> TRUE, filename |-> f] : f \in Filenames}

\* stream descriptors
VideoA ==
    [codec_type |-> "video", codec_name |-> "h264", width |-> "1920",
     height |-> "1080", avg_frame_rate |-> "30/1", codec_tag_string |-> "avc1",
     start_time |-> DecText(0)]
VideoB == [codec_type |-> "video", codec_name |-> "vp9", start_time |-> DecText(300)]
AudioA ==
    [codec_type |-> "audio", codec_name |-> "aac", sample_rate |-> "44100",
     channels |-> "2", channel_layout |-> "stereo"]
AudioB == [codec_type |-> "audio", start_time |-> DecText(200)]
Subtitle == [codec_type |-> "subtitle", codec_name |-> "mov_text"]
Untyped == [codec_name |-> "bin_data"]
StreamDescs == {VideoA, VideoB, AudioA, AudioB, Subtitle, Untyped}

\* format sections
FormatFull ==
    [filename |-> "/tmp/1_a.mp4", duration |-> DecText(10500),
     size |-> IntText(1048576), format_name |-> "mov,mp4,m4a,3gp,3g2,mj2",
     bit_rate |-> IntText(798915)]
FormatEmpty == << >>
FormatWholeDuration == [duration |-> IntText(12), size |-> IntText(7)]
FormatNoDuration == [FormatFull EXCEPT !.duration = NAText]
FormatDecimalSize == [FormatFull EXCEPT !.size = DecText(1500)]
Formats ==
    {FormatFull, FormatEmpty, FormatWholeDuration, FormatNoDuration,
     FormatDecimalSize}

\* what ffprobe does with the content of a file: exit status, stdout (parsed
\* when it is JSON), stderr
MediaContent(data) == [rc |-> 0, json |-> TRUE, stdout |-> data, stderr |-> ""]
GoodMedia == MediaContent([streams |-> <<VideoA, AudioA>>, format |-> FormatFull])
NoDurationMedia ==
    MediaContent([streams |-> <<VideoA, AudioB>>, format |-> FormatNoDuration])
CorruptMedia ==
    [rc |-> 1, json |-> FALSE, stdout |-> << >>,
     stderr |-> "Invalid data found when processing input"]
GarbledOutput == [rc |-> 0, json |-> FALSE, stdout |-> << >>, stderr |-> ""]
Payloads == {GoodMedia, NoDurationMedia, CorruptMedia, GarbledOutput}
\* what is on disk when file.save() fails half way
Truncated ==
    [rc |-> 1, json |-> FALSE, stdout |-> << >>, stderr |-> "moov atom not found"]
\* ffprobe on a path that does not exist
MissingFile ==
    [rc |-> 1, json |-> FALSE, stdout |-> << >>,
     stderr |-> "No such file or directory"]

\* probe outputs handed to the report builder on its own
MaxStreams == 3
MaxStartMs == 400
StreamSeqs == UNION {[1..n -> StreamDescs] : n \in 0..MaxStreams}
\* start times around the multiples of 0.1 s, as decimal texts, or absent
StartTexts == {DecText(n) : n \in {m \in 0..MaxStartMs : m % 100 \in {0, 1, 99}}}
TimedVideo(t) == [codec_type |-> "video", codec_name |-> "h264", start_time |-> t]
TimedAudio(t) == [codec_type |-> "audio", codec_name |-> "aac", start_time |-> t]
UntimedVideo == [codec_type |-> "video", codec_name |-> "h264"]
UntimedAudio == [codec_type |-> "audio", codec_name |-> "aac"]
TimedPairs ==
    {<<v, a>> : v \in {TimedVideo(t) : t \in StartTexts \cup {NAText}} \cup {UntimedVideo},
                a \in {TimedAudio(t) : t \in StartTexts} \cup {UntimedAudio}}
ProbeOutputs ==
    {[streams |-> ss, format |-> f] : ss \in StreamSeqs, f \in Formats}
    \cup {[streams |-> ss, format |-> FormatFull] : ss \in TimedPairs}
    \cup {[streams |-> ss] : ss \in StreamSeqs}
    \cup {[format |-> f] : f \in Formats}

(***************************************************************************)
(* State                                                                   *)
(***************************************************************************)
VARIABLES
    pc,           \* where each request is in analyze_video
    form,         \* request.files and the file name, once received
    filepath,     \* the temporary path of the request, <<>> before line 192
    saved,        \* <<payload>> once file.save() has written the upload
    disk,         \* the temporary directory: path -> [content, creator]
    proc,         \* <<what subprocess.run did>> for the request
    raw,          \* <<raw_analysis_data>>, the value run_ffprobe returned
    probed,       \* <<the file ffprobe read>>: its content and who created it
    response,     \* <<the response>> of the request; it is sent at "done"
    ffprobe_data, \* report builder alone: its argument
    result        \* report builder alone: what the call did

vars == <<pc, form, filepath, saved, disk, proc, raw, probed, response,
          ffprobe_data, result>>
handlerVars == <<pc, form, filepath, saved, disk, proc, raw, probed, response>>
builderVars == <<ffprobe_data, result>>

NoResult == [kind |-> "none", value |-> << >>, exc |-> ""]

\* "内部服务器错误"
INTERNAL_ERROR == "internal server error"
\* "分析完成"
ANALYSIS_DONE == "analysis complete"
\* "请求中必须包含 'video' 文件"
MSG_NO_FILE == "request must contain a 'video' file"
\* "文件名无效或文件类型不被支持"
MSG_BAD_NAME == "invalid file name or unsupported file type"
PROBE_FAILED == "FFprobe analysis failed"
PROBE_BAD_JSON == "Invalid JSON response from FFprobe"
\* str(e) of the FileNotFoundError of subprocess.run and of the OSError of save
TOOL_MISSING_ERROR == "[Errno 2] No such file or directory: 'ffprobe'"
SAVE_ERROR == "[Errno 28] No space left on device"

BadRequest(message) == [status |-> 400, body |-> [message |-> message]]
ServerError(exc) ==
    [status |-> 500, body |-> [status |-> INTERNAL_ERROR, message |-> exc]]
Ok(report) ==
    [status |-> 200, body |-> [status |-> ANALYSIS_DONE, summary |-> report]]

\* run_ffprobe once subprocess.run has completed with process result p
run_ffprobe(p) ==
    IF p.rc # 0 THEN [error |-> PROBE_FAILED, details |-> p.stderr]
    ELSE IF ~p.json THEN [error |-> PROBE_BAD_JSON]
    ELSE p.stdout

\* lines 205-215: the report as a response, or the except clause
ReportResponse(data) ==
    LET res == analyze_sync_and_metadata(data)
    IN  IF res.kind = "return" THEN Ok(res.value) ELSE ServerError(res.exc)

Exists(path) == path \in DOMAIN disk
WriteFile(path, content, r) ==
    [p \in DOMAIN disk \cup {path} |->
        IF p = path
        THEN [content |-> content,
              creator |-> IF Exists(path) THEN disk[path].creator ELSE r]
        ELSE disk[p]]
RemoveFile(path) == [p \in DOMAIN disk \ {path} |-> disk[p]]

(***************************************************************************)
(* analyze_video, one action per step that touches the disk or a process   *)
(***************************************************************************)
\* lines 176-194: validation and the temporary path
Receive(r) ==
    /\ pc[r] = "start"
    /\ \E f \in Forms :
        /\ form' = [form EXCEPT ![r] = f]
        /\ IF ~f.has_video THEN
                /\ response' = [response EXCEPT ![r] = <<BadRequest(MSG_NO_FILE)>>]
                /\ pc' = [pc EXCEPT ![r] = "done"]
                /\ UNCHANGED filepath
           ELSE IF f.filename = << >> \/ ~allowed_file(f.filename) THEN
                /\ response' = [response EXCEPT ![r] = <<BadRequest(MSG_BAD_NAME)>>]
                /\ pc' = [pc EXCEPT ![r] = "done"]
                /\ UNCHANGED filepath
           ELSE
                /\ filepath' = [filepath EXCEPT
                                  ![r] = TempPath(r, secure_filename(f.filename))]
                /\ pc' = [pc EXCEPT ![r] = "save"]
                /\ UNCHANGED response
    /\ UNCHANGED <<saved, disk, proc, raw, probed, builderVars>>

\* line 198, file.save(filepath) writes the upload
Save(r) ==
    /\ pc[r] = "save"
    /\ \E payload \in Payloads :
        /\ disk' = WriteFile(filepath[r], payload, r)
        /\ saved' = [saved EXCEPT ![r] = <<payload>>]
    /\ pc' = [pc EXCEPT ![r] = "probe"]
    /\ UNCHANGED <<form, filepath, proc, raw, probed, response, builderVars>>

\* line 198 raises (I/O error), with or without a truncated file left behind;
\* lines 213-215 build the response
SaveFails(r) ==
    /\ pc[r] = "save"
    /\ \E partial \in BOOLEAN :
        disk' = IF partial THEN WriteFile(filepath[r], Truncated, r) ELSE disk
    /\ response' = [response EXCEPT ![r] = <<ServerError(SAVE_ERROR)>>]
    /\ pc' = [pc EXCEPT ![r] = "finally"]
    /\ UNCHANGED <<form, filepath, saved, proc, raw, probed, builderVars>>

\* lines 202-211: ffprobe runs on the file, run_ffprobe returns, the report is
\* built (or raises, lines 213-215)
Probe(r) ==
    /\ pc[r] = "probe"
    /\ LET path == filepath[r]
           file == IF Exists(path) THEN disk[path]
                   ELSE [content |-> MissingFile, creator |-> 0]
           p    == [kind |-> "completed", rc |-> file.content.rc,
                    json |-> file.content.json, stdout |-> file.content.stdout,
                    stderr |-> file.content.stderr]
           data == run_ffprobe(p)
       IN  /\ probed' = [probed EXCEPT ![r] = <<file>>]
           /\ proc' = [proc EXCEPT ![r] = <<p>>]
           /\ raw' = [raw EXCEPT ![r] = <<data>>]
           /\ response' = [response EXCEPT ![r] = <<ReportResponse(data)>>]
    /\ pc' = [pc EXCEPT ![r] = "finally"]
    /\ UNCHANGED <<form, filepath, saved, disk, builderVars>>

\* line 56 raises FileNotFoundError (no ffprobe executable); run_ffprobe does
\* not catch it, lines 213-215 do
ProbeToolMissing(r) ==
    /\ pc[r] = "probe"
    /\ proc' = [proc EXCEPT ![r] =
                  <<[kind |-> "FileNotFoundError", rc |-> 127, json |-> FALSE,
                     stdout |-> << >>, stderr |-> "ffprobe: not found"]>>]
    /\ response' = [response EXCEPT ![r] = <<ServerError(TOOL_MISSING_ERROR)>>]
    /\ pc' = [pc EXCEPT ![r] = "finally"]
    /\ UNCHANGED <<form, filepath, saved, disk, raw, probed, builderVars>>

\* the removal at the end of the try block instead of in a finally clause: it
\* is skipped when an exception was handled
CleanupOnSuccessOnly(r) ==
    /\ pc[r] = "finally"
    /\ disk' = IF Exists(filepath[r]) /\ response[r][1].status = 200
               THEN RemoveFile(filepath[r]) ELSE disk
    /\ pc' = [pc EXCEPT ![r] = "done"]
    /\ UNCHANGED <<form, filepath, saved, proc, raw, probed, response, builderVars>>

\* lines 217-221, then the response is sent
Cleanup(r) ==
    /\ pc[r] = "finally"
    /\ disk' = IF Exists(filepath[r]) THEN RemoveFile(filepath[r]) ELSE disk
    /\ pc' = [pc EXCEPT ![r] = "done"]
    /\ UNCHANGED <<form, filepath, saved, proc, raw, probed, response, builderVars>>

Init ==
    /\ pc = [r \in Requests |-> "start"]
    /\ form = [r \in Requests |-> NoVideoField]
    /\ filepath = [r \in Requests |-> << >>]
    /\ saved = [r \in Requests |-> << >>]
    /\ disk = << >>
    /\ proc = [r \in Requests |-> << >>]
    /\ raw = [r \in Requests |-> << >>]
    /\ probed = [r \in Requests |-> << >>]
    /\ response = [r \in Requests |-> << >>]
    /\ ffprobe_data = << >>
    /\ result = NoResult

Next ==
    \E r \in Requests :
        \/ Receive(r)
        \/ Save(r)
        \/ SaveFails(r)
        \/ Probe(r)
        \/ ProbeToolMissing(r)
        \/ Cleanup(r)

Spec == Init /\ [][Next]_vars

(***************************************************************************)
(* The report builder on its own: one call on one probe output             *)
(***************************************************************************)
Analyze ==
    /\ result.kind = "none"
    /\ result' = analyze_sync_and_metadata(ffprobe_data)
    /\ UNCHANGED <<ffprobe_data, handlerVars>>

InitReport ==
    /\ pc = [r \in Requests |-> "start"]
    /\ form = [r \in Requests |-> NoVideoField]
    /\ filepath = [r \in Requests |-> << >>]
    /\ saved = [r \in Requests |-> << >>]
    /\ disk = << >>
    /\ proc = [r \in Requests |-> << >>]
    /\ raw = [r \in Requests |-> << >>]
    /\ probed = [r \in Requests |-> << >>]
    /\ response = [r \in Requests |-> << >>]
    /\ ffprobe_data \in ProbeOutputs
    /\ result = NoResult

NextReport == Analyze

SpecReport == InitReport /\ [][NextReport]_vars

(***************************************************************************)
(* Properties                                                              *)
(***************************************************************************)
Status(r) == response[r][1].status
Body(r) == response[r][1].body
CreatedBy(r) == {p \in DOMAIN disk : disk[p].creator = r}

\* C1: when the response of a request that reached the save step is sent,
\* whichever way the request ended, its temporary file does not exist (and no
\* file the request created is left).
C1_TempFileRemoved ==
    \A r \in Requests :
        (pc[r] = "done" /\ filepath[r] # << >>) =>
            (~Exists(filepath[r]) /\ CreatedBy(r) = {})

\* a request whose upload was saved ended in the internal-error response
C1_Witness ==
    \E r \in Requests :
        /\ pc[r] = "done"
        /\ saved[r] # << >>
        /\ Status(r) = 500
        /\ ~Exists(filepath[r])

\* the streams of the builder's argument
DataStreams == Get(ffprobe_data, "streams", << >>)
HasStream(type) ==
    \E i \in 1..Len(DataStreams) :
        "codec_type" \in DOMAIN DataStreams[i] /\ DataStreams[i].codec_type = type
IsReport == result.kind = "return" /\ "error" \notin DOMAIN ffprobe_data

\* C2: in every report, no video stream gives the missing-video status (also
\* when audio is missing too), video but no audio gives the missing-audio
\* status, and codec_exception is "OK" exactly when both streams are present.
C2_MissingStream ==
    IsReport =>
        /\ ~HasStream("video") => result.value.sync_status = SYNC_NO_VIDEO
        /\ (HasStream("video") /\ ~HasStream("audio")) =>
                result.value.sync_status = SYNC_NO_AUDIO
        /\ result.value.codec_exception = CODEC_OK
                <=> (HasStream("video") /\ HasStream("audio"))

\* a report for an output with neither a video nor an audio stream, and one
\* stream of another type
C2_Witness ==
    /\ IsReport
    /\ Len(DataStreams) > 0
    /\ ~HasStream("video") /\ ~HasStream("audio")
    /\ result.value.sync_status = SYNC_NO_VIDEO
    /\ result.value.codec_exception # CODEC_OK

\* the first stream of a type, chosen by position
FirstStream(type) ==
    DataStreams[CHOOSE i \in 1..Len(DataStreams) :
        /\ "codec_type" \in DOMAIN DataStreams[i]
        /\ DataStreams[i].codec_type = type
        /\ \A j \in 1..(i - 1) :
              ~("codec_type" \in DOMAIN DataStreams[j]
                /\ DataStreams[j].codec_type = type)]
\* the start time of a stream, in thousandths of a second, absent taken as 0
StartMillis(s) == IF "start_time" \in DOMAIN s THEN s.start_time.v ELSE 0
NumericStart(s) == "start_time" \in DOMAIN s => s.start_time.t # "str"
BothTimed ==
    /\ IsReport
    /\ HasStream("video") /\ HasStream("audio")
    /\ NumericStart(FirstStream("video")) /\ NumericStart(FirstStream("audio"))
\* the skew as the code computes it, a double
ComputedSkew ==
    FloatAbsDiff(ToDouble(StartMillis(FirstStream("video")), 1000),
                 ToDouble(StartMillis(FirstStream("audio")), 1000))
DecimalSkew ==
    LET d == StartMillis(FirstStream("video")) - StartMillis(FirstStream("audio"))
    IN  IF d < 0 THEN 0 - d ELSE d

\* C3 as claimed: with both streams present and the computed skew exactly the
\* threshold 0.1, the status is the start-time mismatch warning.
C3_Original ==
    (BothTimed /\ ComputedSkew = Threshold) =>
        result.value.sync_status = SYNC_MISMATCH

\* C3 as amended: with both streams present and the computed skew exactly the
\* threshold 0.1, the status is OK; the comparison is 'skew > threshold'.
C3_ThresholdIsOk ==
    (BothTimed /\ ComputedSkew = Threshold) =>
        result.value.sync_status = SYNC_OK

\* video starts at 0.1 s, audio at 0: the skew is the threshold itself
C3_Witness ==
    /\ BothTimed
    /\ StartMillis(FirstStream("video")) = 100
    /\ StartMillis(FirstStream("audio")) = 0
    /\ ComputedSkew = Threshold
    /\ result.value.sync_status = SYNC_OK

\* C4: with both streams present, start times differing by less than 0.1 s
\* give the OK status, start times differing by more than 0.1 s give the
\* mismatch warning, and no other status occurs.
C4_SkewClassification ==
    BothTimed =>
        /\ DecimalSkew < 100 => result.value.sync_status = SYNC_OK
        /\ DecimalSkew > 100 => result.value.sync_status = SYNC_MISMATCH
        /\ result.value.sync_status \in {SYNC_OK, SYNC_MISMATCH}

\* audio starts 0.101 s after the video and the report says mismatch
C4_Witness ==
    /\ BothTimed
    /\ StartMillis(FirstStream("audio")) - StartMillis(FirstStream("video")) = 101
    /\ result.value.sync_status = SYNC_MISMATCH

\* C5 as claimed: when the probe tool is absent or exits non-zero, run_ffprobe
\* returns the execution-failure value with the tool's stderr and the response
\* is the 'analysis failed' report, not the internal-error response.
C5_ProbeFailureReported ==
    \A r \in Requests :
        (proc[r] # << >>
            /\ (proc[r][1].kind = "FileNotFoundError" \/ proc[r][1].rc # 0)) =>
            /\ raw[r] = <<[error |-> PROBE_FAILED, details |-> proc[r][1].stderr]>>
            /\ Status(r) = 200
            /\ Body(r).summary.sync_status = SYNC_FAILED
            /\ Body(r).summary.details = proc[r][1].stderr

\* the extension test of the upload constraints, stated on the form
HasAllowedExtension(name) ==
    \E i \in 1..Len(name) :
        /\ name[i] = "."
        /\ \A j \in (i + 1)..Len(name) : name[j] # "."
        /\ Lower(SubSeq(name, i + 1, Len(name))) \in ALLOWED_EXTENSIONS
FailsValidation(f) ==
    ~f.has_video \/ f.filename = << >> \/ ~HasAllowedExtension(f.filename)

\* C6: a request that fails validation is answered 4xx at once, and never has
\* a temporary path, a saved file or a probe run; so a file is written and the
\* probe started only for requests that passed every check.
C6_RejectedBeforeSideEffects ==
    \A r \in Requests :
        (pc[r] # "start" /\ FailsValidation(form[r])) =>
            /\ pc[r] = "done"
            /\ Status(r) \in 400..499
            /\ filepath[r] = << >>
            /\ saved[r] = << >> /\ proc[r] = << >> /\ probed[r] = << >>
            /\ CreatedBy(r) = {}

\* a request with a disallowed extension was rejected while another request
\* has its file on disk
C6_Witness ==
    \E r \in Requests :
        /\ pc[r] = "done"
        /\ form[r].has_video /\ form[r].filename = <<"a", ".", "t", "x", "t">>
        /\ Status(r) = 400
        /\ disk # << >>

\* each step of a request changes only the request's own path, and never a
\* file another request created
C7_Step ==
    \A r \in Requests :
        pc'[r] # pc[r] =>
            \A p \in DOMAIN disk \cup DOMAIN disk' :
                (p \notin DOMAIN disk \/ p \notin DOMAIN disk' \/ disk'[p] # disk[p]) =>
                    /\ p = filepath[r]
                    /\ p \in DOMAIN disk => disk[p].creator = r
                    /\ p \in DOMAIN disk' => disk'[p].creator = r
\* from its save to its cleanup a request's file holds what it uploaded, the
\* probe read that file, and no two requests share a path
C7_Owned ==
    /\ \A r \in Requests :
        (saved[r] # << >> /\ pc[r] # "done") =>
            /\ Exists(filepath[r])
            /\ disk[filepath[r]] = [content |-> saved[r][1], creator |-> r]
    /\ \A r \in Requests :
        probed[r] # << >> =>
            probed[r][1] = [content |-> saved[r][1], creator |-> r]
    /\ \A r1, r2 \in Requests :
        (r1 # r2 /\ filepath[r1] # << >>) => filepath[r1] # filepath[r2]

\* C7: under every interleaving each request's temporary file is its own: no
\* request writes, probes or deletes a file of another, the file exists from
\* the save to the request's cleanup, and the probe reads the request's upload.
C7_ExclusiveTempFile == []C7_Owned /\ [][C7_Step]_vars

\* two requests uploaded different payloads under the same file name and both
\* have been probed before either cleaned up
C7_Witness ==
    \E r1, r2 \in Requests :
        /\ r1 # r2
        /\ pc[r1] = "finally" /\ pc[r2] = "finally"
        /\ probed[r1] # << >> /\ probed[r2] # << >>
        /\ form[r1].filename = form[r2].filename
        /\ saved[r1] # saved[r2]

\* C8 as claimed: every internal-error response has a 5xx status and the same
\* body, whatever the exception was.
C8_GenericInternalError ==
    \A r1, r2 \in Requests :
        (pc[r1] = "done" /\ pc[r2] = "done"
            /\ Status(r1) = 500 /\ Status(r2) = 500) =>
            Body(r1) = Body(r2)

\* the argument with only the first video and the first audio stream left
FirstStreamsOnly ==
    [ffprobe_data EXCEPT !.streams =
        (IF HasStream("video") THEN <<FirstStream("video")>> ELSE << >>)
        \o (IF HasStream("audio") THEN <<FirstStream("audio")>> ELSE << >>)]

\* C9: the result is that of the first video and the first audio stream alone,
\* later streams of these types and streams of other types change nothing; the
\* report has a video section exactly when a video stream exists, and an audio
\* section exactly when an audio stream exists.
C9_FirstStreamsDecide ==
    (result.kind # "none" /\ "streams" \in DOMAIN ffprobe_data) =>
        /\ result.kind = analyze_sync_and_metadata(FirstStreamsOnly).kind
        /\ result.kind = "return" =>
            /\ result.value = analyze_sync_and_metadata(FirstStreamsOnly).value
            /\ "video" \in DOMAIN result.value <=> HasStream("video")
            /\ "audio" \in DOMAIN result.value <=> HasStream("audio")

\* a report for three streams: a second, different video stream and a subtitle
\* stream follow the first video stream, whose codec the report names
C9_Witness ==
    /\ IsReport
    /\ DataStreams = <<VideoA, Subtitle, VideoB>>
    /\ result.value.video.codec = "h264"
    /\ "audio" \notin DOMAIN result.value

\* the container section of the builder's argument
DataFormat == Get(ffprobe_data, "format", << >>)
\* a parsed probe output whose stream start times are numbers and whose size
\* and bit rate, when present, are integer texts
WellFormedButDuration ==
    /\ "error" \notin DOMAIN ffprobe_data
    /\ (HasStream("video") /\ HasStream("audio")) =>
            (NumericStart(FirstStream("video")) /\ NumericStart(FirstStream("audio")))
    /\ Get(DataFormat, "size", PyZero).t = "int"
    /\ Get(DataFormat, "bit_rate", PyZero).t = "int"

\* C10 as claimed: for every parsed probe output the builder returns a report,
\* with duration the parsed format.duration or 0 when absent or unparsable,
\* size and bit rate the parsed integers or 0 when absent, and the format name
\* or the unknown marker when absent.
C10_ReportNeverFails ==
    (result.kind # "none" /\ WellFormedButDuration) =>
        /\ result.kind = "return"
        /\ result.value.duration =
              (IF "duration" \in DOMAIN DataFormat /\ DataFormat.duration.t # "str"
               THEN PyFloat(DataFormat.duration).val ELSE Zeros(NumLimbs))
        /\ result.value.size_bytes = Get(DataFormat, "size", PyZero).v
        /\ result.value.bit_rate = Get(DataFormat, "bit_rate", PyZero).v
        /\ result.value.format_name = Get(DataFormat, "format_name", UNKNOWN)

====
